---- MODULE Spec2Model ----
(***************************************************************************)
(* A model of configure.py, the script that writes the .bazelrc of         *)
(* TensorFlow Recommenders-Addons.                                         *)
(*                                                                         *)
(* Python strings that the script takes apart (tf.__version__, the output  *)
(* of `bazel version`, the compile and link flags) are sequences of        *)
(* one-character strings; the lines of .bazelrc are TLA+ strings.          *)
(***************************************************************************)
EXTENDS Integers, Sequences, FiniteSets, TLC

VARIABLES
  system,               \* platform.system()
  machine,              \* platform.machine(), os.uname()[4]
  tf,                   \* the imported tensorflow module: hasVersion, version
  bazelOutput,          \* what `bazel version |grep label` prints
  environ,              \* os.environ
  file,                 \* .bazelrc: exists, lines
  pc,                   \* the statement create_build_configuration is at
  err,                  \* the exception that ended the run, "none" if none
  k,                    \* lines of the current block already written
  tf_version_integer,   \* local of create_build_configuration, line 228
  valid_bazel_version,  \* local of check_bazel_version*, lines 179 and 187
  runs,                 \* invocations of the script started so far
  firstConfig           \* history: .bazelrc as the first successful run left it

vars == <<system, machine, tf, bazelOutput, environ, file, pc, err, k,
          tf_version_integer, valid_bazel_version, runs, firstConfig>>

\* Invocations of the script in one behaviour.
MaxRuns == 3

-----------------------------------------------------------------------------
(* Python's str and int operations, as the script uses them.               *)

DigitChars == <<"0", "1", "2", "3", "4", "5", "6", "7", "8", "9">>

IsDigit(c) == \E i \in 1..Len(DigitChars) : DigitChars[i] = c

DigitValue(c) == (CHOOSE i \in 1..Len(DigitChars) : DigitChars[i] = c) - 1

\* ord(c) for the characters that occur in compared strings.
Ord(c) ==
  IF IsDigit(c) THEN 48 + DigitValue(c)
  ELSE CASE c = "\n" -> 10
         [] c = " " -> 32
         [] c = "." -> 46
         [] c = "a" -> 97

\* a < b on str: lexicographic by code point, a proper prefix is smaller.
RECURSIVE str_lt(_, _)
str_lt(a, b) ==
  IF b = <<>> THEN FALSE
  ELSE IF a = <<>> THEN TRUE
  ELSE IF Ord(a[1]) < Ord(b[1]) THEN TRUE
  ELSE IF Ord(a[1]) > Ord(b[1]) THEN FALSE
  ELSE str_lt(Tail(a), Tail(b))

\* a >= b on str.
RECURSIVE str_ge(_, _)
str_ge(a, b) ==
  IF b = <<>> THEN TRUE
  ELSE IF a = <<>> THEN FALSE
  ELSE IF Ord(a[1]) > Ord(b[1]) THEN TRUE
  ELSE IF Ord(a[1]) < Ord(b[1]) THEN FALSE
  ELSE str_ge(Tail(a), Tail(b))

\* s.split(sep) for a one-character separator.
RECURSIVE str_split(_, _)
str_split(s, sep) ==
  IF \A i \in 1..Len(s) : s[i] # sep THEN <<s>>
  ELSE LET i == CHOOSE j \in 1..Len(s) :
                  s[j] = sep /\ \A h \in 1..(j - 1) : s[h] # sep
       IN <<SubSeq(s, 1, i - 1)>> \o str_split(SubSeq(s, i + 1, Len(s)), sep)

IsSpace(c) == c \in {" ", "\n"}

\* s.strip()
RECURSIVE str_strip(_)
str_strip(s) ==
  IF s = <<>> THEN s
  ELSE IF IsSpace(s[1]) THEN str_strip(Tail(s))
  ELSE IF IsSpace(s[Len(s)]) THEN str_strip(SubSeq(s, 1, Len(s) - 1))
  ELSE s

\* s.replace(old, new) for one-character old and new.
str_replace(s, old, new) == [i \in 1..Len(s) |-> IF s[i] = old THEN new ELSE s[i]]

\* s[from:] and s[from:-cut], with Python's 0-based from.
str_slice(s, from, cut) == SubSeq(s, from + 1, Len(s) - cut)

\* The value of a string of decimal digits.
RECURSIVE DecimalValue(_)
DecimalValue(s) ==
  IF s = <<>> THEN 0
  ELSE 10 * DecimalValue(SubSeq(s, 1, Len(s) - 1)) + DigitValue(s[Len(s)])

\* int(s): Python's own ValueError (invalid literal) unless s is a non-empty
\* string of digits; the model's strings hold no sign, blank or underscore.
int(s) ==
  IF s # <<>> /\ \A i \in 1..Len(s) : IsDigit(s[i])
  THEN [err |-> "none", val |-> DecimalValue(s)]
  ELSE [err |-> "InvalidLiteral", val |-> 0]

\* str(n) for n >= 0.
RECURSIVE str(_)
str(n) ==
  IF n < 10 THEN <<DigitChars[n + 1]>>
  ELSE str(n \div 10) \o <<DigitChars[(n % 10) + 1]>>

\* A Python string as the text written to the file.
RECURSIVE Text(_)
Text(s) == IF s = <<>> THEN "" ELSE s[1] \o Text(Tail(s))

-----------------------------------------------------------------------------
(* The host and the installed framework, as the script reads them.         *)

is_macos == system = "Darwin"

is_windows == system = "Windows"

is_linux == system = "Linux"

is_arm64 == machine = "arm64"

is_raspi_arm == machine = "armv7l"

\* os.getenv(name, default)
getenv(name, default) == IF name \in DOMAIN environ THEN environ[name] ELSE default

\* tf.sysconfig.get_compile_flags(): "-I<site>\include" with the host's separators.
get_compile_flags ==
  IF is_windows
  THEN << <<"-", "I", "C", ":", "\\", "t", "f", "\\", "i", "n", "c", "l", "u", "d", "e">> >>
  ELSE << <<"-", "I", "/", "t", "f", "/", "i", "n", "c", "l", "u", "d", "e">> >>

\* tf.sysconfig.get_link_flags(): "-L<dir>" and the library's namespec; empty for
\* a monolithic build (Windows, Raspberry Pi).
get_link_flags ==
  IF is_windows \/ is_raspi_arm THEN <<>>
  ELSE IF is_macos
  THEN << <<"-", "L", "/", "t", "f">>, <<"-", "l", "t", "f", ".", "2">> >>
  ELSE << <<"-", "L", "/", "t", "f">>,
          <<"-", "l", ":", "l", "i", "b", "t", "f", ".", "s", "o", ".", "2">> >>

\* tf.sysconfig.CXX11_ABI_FLAG
CXX11_ABI_FLAG == IF is_linux THEN 1 ELSE 0

\* os.path.dirname(os.path.abspath(__file__))
current_path == <<"/", "w">>

-----------------------------------------------------------------------------
(* The functions of configure.py. A function that can raise returns a      *)
(* record whose err names the exception, "none" when it returns normally.  *)

\* Mutation of VALID_BAZEL_VERSION: the macOS-arm64 row is lost.
VALID_BAZEL_VERSION_no_arm64(tf_version) ==
  IF str_lt(tf_version, <<"2", ".", "0", ".", "0">>)
  THEN [err |-> "none", val |-> <<"0", ".", "2", "6", ".", "1">>]
  ELSE [err |-> "none", val |-> <<"4", ".", "2", ".", "1">>]

VALID_BAZEL_VERSION(tf_version) ==
  IF is_macos /\ is_arm64
  THEN [err |-> "none", val |-> <<"4", ".", "1", ".", "0">>]
  ELSE IF str_lt(tf_version, <<"2", ".", "0", ".", "0">>)
  THEN [err |-> "none", val |-> <<"0", ".", "2", "6", ".", "1">>]
  ELSE IF str_ge(tf_version, <<"2", ".", "0", ".", "0">>)
  THEN [err |-> "none", val |-> <<"4", ".", "2", ".", "1">>]
  ELSE [err |-> "UnsupportedFrameworkVersion", val |-> <<>>]

\* Mutation of version_parts_ok: the assert on the major version is lost.
version_parts_ok_no_major(parts) ==
  Len(parts) = 3 /\ Len(parts[2]) <= 2 /\ Len(parts[3]) = 1

\* Lines 147-159: the unpacking into three parts and the three asserts.
version_parts_ok(parts) ==
  Len(parts) = 3 /\ Len(parts[1]) = 1 /\ Len(parts[2]) <= 2 /\ Len(parts[3]) = 1

\* Mutation of version_number: the minor version weighs 100, not 10.
version_number_minor100(major, minor, patch) == major * 1000 + minor * 100 + patch

\* Line 162.
version_number(major, minor, patch) == major * 1000 + minor * 10 + patch

get_tf_version_integer ==
  IF ~tf.hasVersion THEN [err |-> "FrameworkNotInstalled", val |-> 0]
  ELSE
    LET parts == str_split(tf.version, ".") IN
    \* whatever fails in the try block ends in the bare except
    IF ~version_parts_ok(parts) THEN [err |-> "MalformedVersionString", val |-> 0]
    ELSE
      LET major == int(parts[1])
          minor == int(parts[2])
          patch == int(parts[3])
      IN
      \* line 162 is outside the try: int()'s own ValueError escapes
      IF major.err # "none" \/ minor.err # "none" \/ patch.err # "none"
      THEN [err |-> "InvalidLiteral", val |-> 0]
      ELSE
        LET tf_version_num == str(version_number(major.val, minor.val, patch.val)) IN
        IF Len(tf_version_num) # 4
        THEN [err |-> "VersionIntegerLengthError", val |-> 0]
        ELSE [err |-> "none", val |-> int(tf_version_num).val]

get_tf_header_dir ==
  LET v == get_tf_version_integer IN
  IF v.err # "none" THEN [err |-> v.err, val |-> <<>>]
  ELSE IF v.val >= 2000
  THEN LET tf_header_dir == str_slice(get_compile_flags[1], 2, 0) IN
       [err |-> "none",
        val |-> IF is_windows THEN str_replace(tf_header_dir, "\\", "/")
                ELSE tf_header_dir]
  ELSE [err |-> "none",
        val |-> current_path
                  \o <<"/", "b", "u", "i", "l", "d", "_", "d", "e", "p", "s">>
                  \o <<"/", "t", "f", "_", "h", "e", "a", "d", "e", "r", "/">>
                  \o tf.version
                  \o <<"/", "t", "e", "n", "s", "o", "r", "f", "l", "o", "w">>]

get_tf_shared_lib_dir ==
  IF is_windows
  THEN str_replace(str_slice(get_compile_flags[1], 2, 7) \o <<"p", "y", "t", "h", "o", "n">>,
                   "\\", "/")
  ELSE IF is_raspi_arm
  THEN str_slice(get_compile_flags[1], 2, 7) \o <<"p", "y", "t", "h", "o", "n">>
  ELSE str_slice(get_link_flags[1], 2, 0)

get_shared_lib_name ==
  LET namespec == get_link_flags IN
  IF is_macos THEN "libtensorflow_framework.dylib"
  ELSE IF is_windows THEN "_pywrap_tensorflow_internal.lib"
  ELSE IF is_raspi_arm THEN "_pywrap_tensorflow_internal.so"
  ELSE Text(str_slice(namespec[2], 3, 0))

get_installed_and_valid_bazel_version ==
  LET parts == str_split(bazelOutput, ":") IN
  \* str(output).split(":")[1]
  IF Len(parts) < 2 THEN [err |-> "IndexError", installed |-> <<>>, valid |-> <<>>]
  \* tf.__version__, read here outside get_tf_version_integer's try
  ELSE IF ~tf.hasVersion
  THEN [err |-> "AttributeError", installed |-> <<>>, valid |-> <<>>]
  ELSE LET valid == VALID_BAZEL_VERSION(tf.version) IN
       [err |-> valid.err, installed |-> str_strip(parts[2]), valid |-> valid.val]

\* Mutation of check_bazel_version: an installed version above the required
\* one is let through.
check_bazel_version_only_lower ==
  LET r == get_installed_and_valid_bazel_version IN
  IF r.err # "none" THEN r.err
  ELSE IF str_lt(r.installed, r.valid) THEN "BuildToolVersionMismatch"
  ELSE "none"

\* The exception check_bazel_version ends with, "none" if it returns.
check_bazel_version ==
  LET r == get_installed_and_valid_bazel_version IN
  IF r.err # "none" THEN r.err
  ELSE IF r.installed # r.valid THEN "BuildToolVersionMismatch"
  ELSE "none"

check_bazel_version_for_macOS_arm64 ==
  LET r == get_installed_and_valid_bazel_version IN
  IF r.err # "none" THEN r.err
  ELSE IF str_lt(r.installed, r.valid) THEN "BuildToolVersionMismatch"
  ELSE "none"

\* The exception extract_tf_header ends with when tar exits with ret. The
\* paths it builds go into the tar command only.
extract_tf_header(ret) ==
  LET tf_header_dir == get_tf_header_dir
      v == get_tf_version_integer
  IN
  IF tf_header_dir.err # "none" THEN tf_header_dir.err
  ELSE IF v.err # "none" THEN v.err
  ELSE IF v.val < 2000 /\ ret # 0 THEN "ExtractionFailed"
  ELSE "none"

\* Whether extract_tf_header runs tar at all.
runs_tar ==
  get_tf_header_dir.err = "none" /\ get_tf_version_integer.err = "none"
  /\ get_tf_version_integer.val < 2000

-----------------------------------------------------------------------------
(* The file and the lines written to it.                                   *)

NoFile == [exists |-> FALSE, lines |-> <<>>]

\* Mutation of write: the file is opened with "w", which truncates it.
write_truncating(f, line) == [exists |-> TRUE, lines |-> <<line>>]

\* open(_TFRA_BAZELRC, "a") and f.write(line + "\n"): the file after the call.
write(f, line) == [exists |-> TRUE, lines |-> Append(f.lines, line)]

\* The line write_action_env writes.
write_action_env(var_name, var) ==
  "build --action_env " \o var_name \o "=\"" \o var \o "\""

\* Mutation of remove_bazelrc: the old copy is kept.
remove_bazelrc_kept(f) == f

\* Lines 214-215: the file after os.remove, when os.path.isfile holds.
remove_bazelrc(f) == IF f.exists THEN NoFile ELSE f

\* Lines 234-236.
strategy_lines ==
  <<"build --spawn_strategy=standalone",
    "build --strategy=Genrule=standalone",
    "build -c opt">>

\* Mutation of windows_lines: AVX goes to the default config.
windows_lines_default_avx ==
  <<"build --config=windows",
    "build:windows --enable_runfiles",
    "build:windows --copt=/experimental:preprocessor",
    "build:windows --host_copt=/experimental:preprocessor",
    "build --copt=/arch=AVX">>

\* Lines 239-243.
windows_lines ==
  <<"build --config=windows",
    "build:windows --enable_runfiles",
    "build:windows --copt=/experimental:preprocessor",
    "build:windows --host_copt=/experimental:preprocessor",
    "build:windows --copt=/arch=AVX">>

\* The lines configure_cuda writes.
configure_cuda ==
  <<write_action_env("TF_NEED_CUDA", "1"),
    write_action_env("CUDA_TOOLKIT_PATH", getenv("CUDA_TOOLKIT_PATH", "/usr/local/cuda")),
    write_action_env("CUDNN_INSTALL_PATH",
                     getenv("CUDNN_INSTALL_PATH", "/usr/lib/x86_64-linux-gnu")),
    write_action_env("TF_CUDA_VERSION", getenv("TF_CUDA_VERSION", "11.0")),
    write_action_env("TF_CUDNN_VERSION", getenv("TF_CUDNN_VERSION", "8.0")),
    "test --config=cuda",
    "build --config=cuda",
    "build:cuda --define=using_cuda=true --define=using_cuda_nvcc=true",
    "build:cuda --crosstool_top=@local_config_cuda//crosstool:toolchain">>

\* The lines configure_rocm writes.
configure_rocm ==
  <<write_action_env("TF_NEED_ROCM", "1"),
    write_action_env("ROCM_PATH", getenv("ROCM_PATH", "/opt/rocm")),
    "test --config=rocm",
    "build --config=rocm",
    "build:rocm --define=using_rocm_hipcc=true",
    "build:rocm --define=tensorflow_mkldnn_contraction_kernel=0",
    "build:rocm --repo_env TF_NEED_ROCM=1",
    "build:rocm --crosstool_top=@local_config_rocm//crosstool:toolchain">>

-----------------------------------------------------------------------------
(* create_build_configuration, one statement a step. The tests of its if   *)
(* statements have no effect and are taken with the statement before them. *)

\* Line 218, after check_bazel_version or when the host is not Linux.
after_check_linux == IF is_macos /\ is_arm64 THEN "check_macos" ELSE "extract"

\* Line 216.
after_remove == IF is_linux THEN "check_linux" ELSE after_check_linux

\* Mutation of gpu_branch: the ROCm flag is tested first.
gpu_branch_rocm_first ==
  IF getenv("TF_NEED_ROCM", "0") = "1" THEN "rocm"
  ELSE IF getenv("TF_NEED_CUDA", "0") = "1" THEN "cuda"
  ELSE "finish"

\* Lines 249-256.
gpu_branch ==
  IF getenv("TF_NEED_CUDA", "0") = "1" THEN "cuda"
  ELSE IF getenv("TF_NEED_ROCM", "0") = "1" THEN "rocm"
  ELSE "finish"

\* Lines 245-246.
after_windows ==
  IF (is_macos \/ is_linux) /\ ~is_arm64 THEN "avx" ELSE gpu_branch

\* Line 238.
after_strategy == IF is_windows THEN "windows" ELSE after_windows

Raise(e) == pc' = "aborted" /\ err' = e

Goto(l) == pc' = l /\ err' = err

Host == <<system, machine, tf, bazelOutput, environ>>

RemoveOld ==
  /\ pc = "remove"
  /\ file' = remove_bazelrc(file)
  /\ Goto(after_remove)
  /\ UNCHANGED <<Host, k, tf_version_integer, valid_bazel_version, runs, firstConfig>>

CheckBazelVersion ==
  /\ pc = "check_linux"
  /\ LET e == check_bazel_version
         r == get_installed_and_valid_bazel_version
     IN /\ valid_bazel_version' = IF r.err = "none" THEN r.valid ELSE valid_bazel_version
        /\ IF e # "none" THEN Raise(e) ELSE Goto(after_check_linux)
  /\ UNCHANGED <<Host, file, k, tf_version_integer, runs, firstConfig>>

CheckBazelVersionForMacOSArm64 ==
  /\ pc = "check_macos"
  /\ LET e == check_bazel_version_for_macOS_arm64
         r == get_installed_and_valid_bazel_version
     IN /\ valid_bazel_version' = IF r.err = "none" THEN r.valid ELSE valid_bazel_version
        /\ IF e # "none" THEN Raise(e) ELSE Goto("extract")
  /\ UNCHANGED <<Host, file, k, tf_version_integer, runs, firstConfig>>

\* Line 220; ret is tar's exit status when tar runs.
ExtractTfHeader ==
  /\ pc = "extract"
  /\ \E ret \in IF runs_tar THEN {0, 1} ELSE {0} :
       LET e == extract_tf_header(ret) IN
       IF e # "none" THEN Raise(e) ELSE Goto("header_dir")
  /\ UNCHANGED <<Host, file, k, tf_version_integer, valid_bazel_version, runs, firstConfig>>

\* Line 223.
WriteHeaderDir ==
  /\ pc = "header_dir"
  /\ LET d == get_tf_header_dir IN
     IF d.err # "none"
     THEN Raise(d.err) /\ file' = file
     ELSE /\ file' = write(file, write_action_env("TF_HEADER_DIR", Text(d.val)))
          /\ Goto("shared_lib_dir")
  /\ UNCHANGED <<Host, k, tf_version_integer, valid_bazel_version, runs, firstConfig>>

\* Line 224.
WriteSharedLibDir ==
  /\ pc = "shared_lib_dir"
  /\ file' = write(file, write_action_env("TF_SHARED_LIBRARY_DIR",
                                          Text(get_tf_shared_lib_dir)))
  /\ Goto("shared_lib_name")
  /\ UNCHANGED <<Host, k, tf_version_integer, valid_bazel_version, runs, firstConfig>>

\* Line 225.
WriteSharedLibName ==
  /\ pc = "shared_lib_name"
  /\ file' = write(file, write_action_env("TF_SHARED_LIBRARY_NAME", get_shared_lib_name))
  /\ Goto("abi_flag")
  /\ UNCHANGED <<Host, k, tf_version_integer, valid_bazel_version, runs, firstConfig>>

\* Line 226.
WriteAbiFlag ==
  /\ pc = "abi_flag"
  /\ file' = write(file, write_action_env("TF_CXX11_ABI_FLAG", Text(str(CXX11_ABI_FLAG))))
  /\ Goto("version_integer")
  /\ UNCHANGED <<Host, k, tf_version_integer, valid_bazel_version, runs, firstConfig>>

\* Lines 228-230.
WriteVersionInteger ==
  /\ pc = "version_integer"
  /\ LET v == get_tf_version_integer IN
     IF v.err # "none"
     THEN Raise(v.err) /\ UNCHANGED <<file, tf_version_integer>>
     ELSE /\ tf_version_integer' = v.val
          /\ file' = write(file, write_action_env("TF_VERSION_INTEGER", Text(str(v.val))))
          /\ Goto("for_serving")
  /\ UNCHANGED <<Host, k, valid_bazel_version, runs, firstConfig>>

\* Line 232; the strategy block follows.
WriteForServing ==
  /\ pc = "for_serving"
  /\ file' = write(file, write_action_env("FOR_TF_SERVING", getenv("FOR_TF_SERVING", "0")))
  /\ Goto("strategy")
  /\ k' = 0
  /\ UNCHANGED <<Host, tf_version_integer, valid_bazel_version, runs, firstConfig>>

\* Lines 234-236, one write a step.
WriteStrategy ==
  /\ pc = "strategy"
  /\ file' = write(file, strategy_lines[k + 1])
  /\ IF k + 1 < Len(strategy_lines)
     THEN k' = k + 1 /\ Goto("strategy")
     ELSE k' = 0 /\ Goto(after_strategy)
  /\ UNCHANGED <<Host, tf_version_integer, valid_bazel_version, runs, firstConfig>>

\* Lines 239-243, one write a step.
WriteWindows ==
  /\ pc = "windows"
  /\ file' = write(file, windows_lines[k + 1])
  /\ IF k + 1 < Len(windows_lines)
     THEN k' = k + 1 /\ Goto("windows")
     ELSE k' = 0 /\ Goto(after_windows)
  /\ UNCHANGED <<Host, tf_version_integer, valid_bazel_version, runs, firstConfig>>

\* Line 247.
WriteAvx ==
  /\ pc = "avx"
  /\ file' = write(file, "build --copt=-mavx")
  /\ Goto(gpu_branch)
  /\ UNCHANGED <<Host, k, tf_version_integer, valid_bazel_version, runs, firstConfig>>

\* Line 251, one write a step.
ConfigureCuda ==
  /\ pc = "cuda"
  /\ file' = write(file, configure_cuda[k + 1])
  /\ IF k + 1 < Len(configure_cuda)
     THEN k' = k + 1 /\ Goto("cuda")
     ELSE k' = 0 /\ Goto("finish")
  /\ UNCHANGED <<Host, tf_version_integer, valid_bazel_version, runs, firstConfig>>

\* Line 254, one write a step.
ConfigureRocm ==
  /\ pc = "rocm"
  /\ file' = write(file, configure_rocm[k + 1])
  /\ IF k + 1 < Len(configure_rocm)
     THEN k' = k + 1 /\ Goto("rocm")
     ELSE k' = 0 /\ Goto("finish")
  /\ UNCHANGED <<Host, tf_version_integer, valid_bazel_version, runs, firstConfig>>

\* Lines 258-260: the file is read back and printed; the script returns.
Finish ==
  /\ pc = "finish"
  /\ Goto("done")
  /\ firstConfig' = IF firstConfig.set THEN firstConfig
                    ELSE [set |-> TRUE, lines |-> file.lines]
  /\ UNCHANGED <<Host, file, k, tf_version_integer, valid_bazel_version, runs>>

\* Line 294: the script is invoked again, on the same host and environment.
NewRun ==
  /\ pc \in {"done", "aborted"}
  /\ runs < MaxRuns
  /\ runs' = runs + 1
  /\ pc' = "remove"
  /\ err' = "none"
  /\ k' = 0
  /\ tf_version_integer' = 0
  /\ valid_bazel_version' = <<>>
  /\ UNCHANGED <<Host, file, firstConfig>>

-----------------------------------------------------------------------------
(* The hosts, frameworks and environments the runs are checked on.         *)

Systems == {"Darwin", "Windows", "Linux"}

Machines == {"arm64", "armv7l", "x86_64"}

\* tf.__version__: well formed on both sides of 2.0.0, with a part missing or
\* too long, with a 3-digit integer, with a part that is no number.
TfVersionStrings ==
  {<<"2", ".", "5", ".", "1">>,
   <<"2", ".", "9", "9", ".", "1">>,
   <<"2", ".", "0", ".", "0">>,
   <<"1", ".", "1", "5", ".", "2">>,
   <<"2", ".", "0">>,
   <<"1", "0", ".", "0", ".", "0">>,
   <<"2", ".", "1", "0", "0", ".", "1">>,
   <<"2", ".", "5", ".", "1", ".", "0">>,
   <<>>,
   <<"0", ".", "5", ".", "1">>,
   <<"2", ".", "a", ".", "1">>,
   <<"2", ".", ".", "1">>}

TfModules ==
  {[hasVersion |-> TRUE, version |-> v] : v \in TfVersionStrings}
    \cup {[hasVersion |-> FALSE, version |-> <<>>]}

BazelVersions ==
  {<<"0", ".", "2", "6", ".", "1">>,
   <<"3", ".", "7", ".", "2">>,
   <<"4", ".", "1", ".", "0">>,
   <<"4", ".", "2", ".", "1">>,
   <<"5", ".", "0", ".", "0">>,
   <<"1", "0", ".", "0", ".", "0">>}

\* "Build label: <version>", or nothing when bazel is not installed.
BazelOutputs ==
  {<<"B", "u", "i", "l", "d", " ", "l", "a", "b", "e", "l", ":", " ">> \o v \o <<"\n">> :
     v \in BazelVersions} \cup {<<>>}

Unset == "(unset)"

EnvironChoices ==
  [TF_NEED_CUDA : {Unset, "0", "1"},
   TF_NEED_ROCM : {Unset, "0", "1"},
   FOR_TF_SERVING : {Unset, "1"},
   TF_CUDA_VERSION : {Unset, "11.2"}]

Environs ==
  {[n \in {m \in DOMAIN c : c[m] # Unset} |-> c[n]] : c \in EnvironChoices}

Init ==
  /\ system \in Systems
  /\ machine \in Machines
  /\ tf \in TfModules
  /\ bazelOutput \in BazelOutputs
  /\ environ \in Environs
  /\ file = NoFile
  /\ pc = "remove"
  /\ err = "none"
  /\ k = 0
  /\ tf_version_integer = 0
  /\ valid_bazel_version = <<>>
  /\ runs = 1
  /\ firstConfig = [set |-> FALSE, lines |-> <<>>]

Next ==
  \/ RemoveOld
  \/ CheckBazelVersion
  \/ CheckBazelVersionForMacOSArm64
  \/ ExtractTfHeader
  \/ WriteHeaderDir
  \/ WriteSharedLibDir
  \/ WriteSharedLibName
  \/ WriteAbiFlag
  \/ WriteVersionInteger
  \/ WriteForServing
  \/ WriteStrategy
  \/ WriteWindows
  \/ WriteAvx
  \/ ConfigureCuda
  \/ ConfigureRocm
  \/ Finish
  \/ NewRun

Spec == Init /\ [][Next]_vars

-----------------------------------------------------------------------------
(* The two pure functions on every version string M.mm.p, apart from a run. *)

DigitSet == {DigitChars[i] : i \in 1..Len(DigitChars)}

MinorStrings == {<<a>> : a \in DigitSet} \cup {<<a, b>> : a \in DigitSet, b \in DigitSet}

FnVersionStrings ==
  {<<M, ".">> \o mm \o <<".", p>> : M \in DigitSet, mm \in MinorStrings, p \in DigitSet}
    \cup TfVersionStrings

InitFn ==
  /\ system \in Systems
  /\ machine \in Machines
  /\ tf \in {[hasVersion |-> TRUE, version |-> v] : v \in FnVersionStrings}
  /\ bazelOutput = <<>>
  /\ environ = <<>>
  /\ file = NoFile
  /\ pc = "fn"
  /\ err = "none"
  /\ k = 0
  /\ tf_version_integer = 0
  /\ valid_bazel_version = <<>>
  /\ runs = 1
  /\ firstConfig = [set |-> FALSE, lines |-> <<>>]

\* A call of get_tf_version_integer().
EvalVersionInteger ==
  /\ pc = "fn"
  /\ LET v == get_tf_version_integer IN
     /\ tf_version_integer' = v.val
     /\ err' = v.err
  /\ pc' = "fn_version_integer"
  /\ UNCHANGED <<Host, file, k, valid_bazel_version, runs, firstConfig>>

\* A call of _VALID_BAZEL_VERSION(tf.__version__).
EvalValidBazelVersion ==
  /\ pc = "fn"
  /\ LET b == VALID_BAZEL_VERSION(tf.version) IN
     /\ valid_bazel_version' = b.val
     /\ err' = b.err
  /\ pc' = "fn_valid_bazel"
  /\ UNCHANGED <<Host, file, k, tf_version_integer, runs, firstConfig>>

NextFn == EvalVersionInteger \/ EvalValidBazelVersion

SpecFn == InitFn /\ [][NextFn]_vars

-----------------------------------------------------------------------------
(* Vocabulary of the properties.                                           *)

Range(q) == {q[i] : i \in 1..Len(q)}

\* The value of each digit character.
DigitOf ==
  ("0" :> 0) @@ ("1" :> 1) @@ ("2" :> 2) @@ ("3" :> 3) @@ ("4" :> 4) @@
  ("5" :> 5) @@ ("6" :> 6) @@ ("7" :> 7) @@ ("8" :> 8) @@ ("9" :> 9)

\* The code point of each character of a version string.
CodePointOf == [c \in DOMAIN DigitOf |-> 48 + DigitOf[c]] @@ ("." :> 46) @@ ("a" :> 97)

\* a comes before b in the order of strings: at the first place where they
\* differ a has the smaller character, or a ends there and b does not.
LexLess(a, b) ==
  \E i \in 1..(Len(b)) :
    /\ i <= Len(a) + 1
    /\ \A j \in 1..(i - 1) : a[j] = b[j]
    /\ (i = Len(a) + 1 \/ CodePointOf[a[i]] < CodePointOf[b[i]])

\* v is "M.mm.p": M one digit from 1 to 9, mm one or two digits, p one digit.
IsMmmP(v) ==
  /\ Len(v) \in {5, 6}
  /\ v[2] = "." /\ v[Len(v) - 1] = "."
  /\ \A i \in (1..Len(v)) \ {2, Len(v) - 1} : v[i] \in DOMAIN DigitOf
  /\ v[1] # "0"

MajorOf(v) == DigitOf[v[1]]

MinorOf(v) == IF Len(v) = 5 THEN DigitOf[v[3]] ELSE 10 * DigitOf[v[3]] + DigitOf[v[4]]

PatchOf(v) == DigitOf[v[Len(v)]]

-----------------------------------------------------------------------------
(* C5. The required build-tool version follows the decision table for      *)
(* every host and every version string: "4.1.0" on macOS with arm64,       *)
(* else "0.26.1" when the version string is below "2.0.0" in string order, *)
(* else "4.2.1"; the function never raises.                                *)

C5_DecisionTable ==
  pc = "fn_valid_bazel" =>
    /\ err = "none"
    /\ valid_bazel_version =
         IF system = "Darwin" /\ machine = "arm64" THEN <<"4", ".", "1", ".", "0">>
         ELSE IF LexLess(tf.version, <<"2", ".", "0", ".", "0">>)
         THEN <<"0", ".", "2", "6", ".", "1">>
         ELSE <<"4", ".", "2", ".", "1">>

\* The three rows are taken; here macOS-arm64 with 1.15.2, where the first
\* row wins over the second.
C5_Witness ==
  /\ pc = "fn_valid_bazel"
  /\ system = "Darwin" /\ machine = "arm64"
  /\ tf.version = <<"1", ".", "1", "5", ".", "2">>
  /\ valid_bazel_version = <<"4", ".", "1", ".", "0">>

(* C6. For every version string M.mm.p (M in 1..9, mm one or two digits,   *)
(* p one digit) get_tf_version_integer returns M*1000 + mm*10 + p, a       *)
(* number of exactly four decimal digits, and raises nothing.              *)

C6_VersionInteger ==
  (pc = "fn_version_integer" /\ IsMmmP(tf.version)) =>
    /\ err = "none"
    /\ tf_version_integer =
         MajorOf(tf.version) * 1000 + MinorOf(tf.version) * 10 + PatchOf(tf.version)
    /\ tf_version_integer >= 1000 /\ tf_version_integer <= 9999

\* The boundary mm = 99.
C6_Witness ==
  /\ pc = "fn_version_integer"
  /\ tf.version = <<"2", ".", "9", "9", ".", "1">>
  /\ err = "none"
  /\ tf_version_integer = 2991

-----------------------------------------------------------------------------
(* Vocabulary of the properties about runs.                                *)

MacArm64 == system = "Darwin" /\ machine = "arm64"

\* `bazel version` printed a label and tensorflow has a __version__: the
\* installed and the required build-tool versions exist.
VersionsKnown ==
  get_installed_and_valid_bazel_version.err = "none"

Installed == get_installed_and_valid_bazel_version.installed

Required == get_installed_and_valid_bazel_version.valid

Wrote == file.lines # <<>>

\* (C1, as claimed) On every host other than macOS-arm64, no run with
\* installed # required reaches the first directive write or completes.
C1_AsClaimed ==
  (~MacArm64 /\ VersionsKnown /\ Installed # Required) => (~Wrote /\ pc # "done")

(* C1. On a Linux host where `bazel version` prints a label and tensorflow *)
(* has a __version__, a run with installed # required aborts with          *)
(* BuildToolVersionMismatch at its first check, and nothing is ever        *)
(* written; Windows and macOS on a non-arm64 CPU are not checked.          *)

C1_LinuxExactMatch ==
  (system = "Linux" /\ VersionsKnown /\ Installed # Required) =>
    /\ ~Wrote
    /\ \/ pc \in {"remove", "check_linux"}
       \/ pc = "aborted" /\ err = "BuildToolVersionMismatch"

\* A Linux run that stopped on a newer bazel than the required one.
C1_Witness ==
  /\ system = "Linux"
  /\ VersionsKnown
  /\ Installed = <<"5", ".", "0", ".", "0">>
  /\ Required = <<"4", ".", "2", ".", "1">>
  /\ pc = "aborted" /\ err = "BuildToolVersionMismatch"

-----------------------------------------------------------------------------
\* v splits at its dots into exactly three components of lens[1], lens[2] and
\* lens[3] characters.
HasShape(v, lens) ==
  /\ Len(v) = lens[1] + lens[2] + lens[3] + 2
  /\ \A i \in 1..Len(v) :
       (v[i] = ".") <=> (i \in {lens[1] + 1, lens[1] + lens[2] + 2})

\* A major of exactly 1 character, a minor of at most 2, a patch of exactly 1.
LengthShape(v) == \E n \in 0..2 : HasShape(v, <<1, n, 1>>)

Ended == pc \in {"done", "aborted"}

\* (C2, as claimed) A run on a version string without the shape aborts with
\* MalformedVersionString, whatever the host and whatever build-tool version
\* is installed. Stated for the strings whose components are too many, too
\* few or too long, "2.0" and "10.0.0" among them, with bazel installed.
C2_AsClaimed ==
  (tf.hasVersion /\ ~LengthShape(tf.version) /\ bazelOutput # <<>> /\ Ended) =>
    (pc = "aborted" /\ err = "MalformedVersionString")

(* C2. A run on a version string that does not split into three            *)
(* components of exactly 1, at most 2 and exactly 1 characters never       *)
(* succeeds and writes nothing. It aborts with MalformedVersionString,     *)
(* unless the build-tool check, which comes first, ends it: on Linux and   *)
(* macOS-arm64 with IndexError when bazel prints no label, on Linux with   *)
(* BuildToolVersionMismatch when installed # required, on macOS-arm64 with *)
(* BuildToolVersionMismatch when installed < "4.1.0" as strings.           *)

C2_MalformedAborts ==
  (tf.hasVersion /\ ~LengthShape(tf.version)) =>
    /\ ~Wrote
    /\ pc # "done"
    /\ pc = "aborted" =>
         err = IF (system = "Linux" \/ MacArm64) /\ ~VersionsKnown THEN "IndexError"
               ELSE IF system = "Linux" /\ Installed # Required
               THEN "BuildToolVersionMismatch"
               ELSE IF MacArm64 /\ LexLess(Installed, <<"4", ".", "1", ".", "0">>)
               THEN "BuildToolVersionMismatch"
               ELSE "MalformedVersionString"

\* "10.0.0" on a host that makes no build-tool check.
C2_Witness ==
  /\ system = "Windows"
  /\ tf.hasVersion /\ tf.version = <<"1", "0", ".", "0", ".", "0">>
  /\ pc = "aborted" /\ err = "MalformedVersionString"

-----------------------------------------------------------------------------
Taxonomy ==
  {"FrameworkNotInstalled", "MalformedVersionString", "VersionIntegerLengthError",
   "UnsupportedFrameworkVersion", "BuildToolVersionMismatch", "ExtractionFailed"}

\* The number of lines of a full configuration on this host and environment.
FullLength ==
  9 + (IF system = "Windows" THEN 5 ELSE 0)
    + (IF system \in {"Darwin", "Linux"} /\ machine # "arm64" THEN 1 ELSE 0)
    + (IF getenv("TF_NEED_CUDA", "0") = "1" THEN 9
       ELSE IF getenv("TF_NEED_ROCM", "0") = "1" THEN 8 ELSE 0)

(* C3. When a run aborts with an error of the taxonomy, .bazelrc is        *)
(* missing or empty: no line of this run and none of an earlier run. A run *)
(* that returns has written the full configuration.                        *)

C3_AbortLeavesNoDirective ==
  /\ (pc = "aborted" /\ err \in Taxonomy) => (~file.exists \/ file.lines = <<>>)
  /\ pc = "done" => (file.exists /\ Len(file.lines) = FullLength)

\* An extraction failure in a run that follows a successful one.
C3_Witness ==
  /\ firstConfig.set
  /\ pc = "aborted" /\ err = "ExtractionFailed"
  /\ ~file.exists

(* C4. On a fixed host and environment, every successful run, whatever     *)
(* runs came before it, leaves .bazelrc with the content the first         *)
(* successful run left, which began with no file present.                  *)

C4_Idempotent ==
  pc = "done" => (firstConfig.set /\ file.exists /\ file.lines = firstConfig.lines)

\* A third run that succeeds, on a host where tar can fail in between.
C4_Witness ==
  /\ pc = "done" /\ runs = 3
  /\ runs_tar
  /\ file.lines = firstConfig.lines /\ Len(file.lines) = FullLength

-----------------------------------------------------------------------------
\* The components of a dotted version of numbers, as numbers.
Components(v) ==
  LET parts == str_split(v, ".") IN [i \in 1..Len(parts) |-> DecimalValue(parts[i])]

\* a is lower than b in version order, both of three components.
VersionLower(a, b) ==
  LET x == Components(a)
      y == Components(b)
  IN \/ x[1] < y[1]
     \/ x[1] = y[1] /\ x[2] < y[2]
     \/ x[1] = y[1] /\ x[2] = y[2] /\ x[3] < y[3]

(* C7. On macOS-arm64 a run aborts with BuildToolVersionMismatch exactly   *)
(* when the installed version is lower than 4.1.0 in version order.        *)

C7_AsClaimed ==
  (MacArm64 /\ VersionsKnown /\ pc \notin {"remove", "check_macos"}) =>
    ((pc = "aborted" /\ err = "BuildToolVersionMismatch")
       <=> VersionLower(Installed, <<"4", ".", "1", ".", "0">>))

-----------------------------------------------------------------------------
\* The lines of the CUDA block whatever the environment.
CudaFixed ==
  {"build --action_env TF_NEED_CUDA=\"1\"",
   "test --config=cuda",
   "build --config=cuda",
   "build:cuda --define=using_cuda=true --define=using_cuda_nvcc=true",
   "build:cuda --crosstool_top=@local_config_cuda//crosstool:toolchain"}

\* Its lines that take a value, with the defaults and the values of the
\* environments checked.
CudaValued ==
  {"build --action_env CUDA_TOOLKIT_PATH=\"/usr/local/cuda\"",
   "build --action_env CUDNN_INSTALL_PATH=\"/usr/lib/x86_64-linux-gnu\"",
   "build --action_env TF_CUDA_VERSION=\"11.0\"",
   "build --action_env TF_CUDA_VERSION=\"11.2\"",
   "build --action_env TF_CUDNN_VERSION=\"8.0\""}

RocmLines ==
  {"build --action_env TF_NEED_ROCM=\"1\"",
   "build --action_env ROCM_PATH=\"/opt/rocm\"",
   "test --config=rocm",
   "build --config=rocm",
   "build:rocm --define=using_rocm_hipcc=true",
   "build:rocm --define=tensorflow_mkldnn_contraction_kernel=0",
   "build:rocm --repo_env TF_NEED_ROCM=1",
   "build:rocm --crosstool_top=@local_config_rocm//crosstool:toolchain"}

Lines == Range(file.lines)

IsSet(name) == name \in DOMAIN environ /\ environ[name] = "1"

\* The whole CUDA block, TF_CUDA_VERSION from the environment or "11.0".
CudaBlockPresent ==
  /\ CudaFixed \subseteq Lines
  /\ "build --action_env CUDA_TOOLKIT_PATH=\"/usr/local/cuda\"" \in Lines
  /\ "build --action_env CUDNN_INSTALL_PATH=\"/usr/lib/x86_64-linux-gnu\"" \in Lines
  /\ "build --action_env TF_CUDNN_VERSION=\"8.0\"" \in Lines
  /\ IF "TF_CUDA_VERSION" \in DOMAIN environ
     THEN "build --action_env TF_CUDA_VERSION=\"11.2\"" \in Lines
     ELSE "build --action_env TF_CUDA_VERSION=\"11.0\"" \in Lines

CudaAbsent == Lines \cap (CudaFixed \cup CudaValued) = {}

RocmBlockPresent == RocmLines \subseteq Lines

RocmAbsent == Lines \cap RocmLines = {}

(* C8. In the file of a successful run the CUDA block is present if and    *)
(* only if TF_NEED_CUDA is "1", the ROCm block if and only if TF_NEED_CUDA *)
(* is not "1" and TF_NEED_ROCM is "1"; a block that is not present has no  *)
(* line in the file, so the file never holds both.                         *)

C8_GpuBlock ==
  pc = "done" =>
    /\ IF IsSet("TF_NEED_CUDA") THEN CudaBlockPresent ELSE CudaAbsent
    /\ IF ~IsSet("TF_NEED_CUDA") /\ IsSet("TF_NEED_ROCM")
       THEN RocmBlockPresent ELSE RocmAbsent

\* Both flags set: CUDA wins.
C8_Witness ==
  /\ pc = "done"
  /\ IsSet("TF_NEED_CUDA") /\ IsSet("TF_NEED_ROCM")
  /\ "TF_CUDA_VERSION" \notin DOMAIN environ
  /\ CudaBlockPresent /\ RocmAbsent

-----------------------------------------------------------------------------
\* AVX codegen directives under the default build config.
DefaultAvx == {"build --copt=-mavx", "build --copt=/arch=AVX"}

\* AVX codegen directives under the windows build config.
WindowsAvx == {"build:windows --copt=-mavx", "build:windows --copt=/arch=AVX"}

\* (C9, as claimed) On Windows with a non-arm64 CPU the file of a successful
\* run has an AVX directive under the default config and one under the
\* windows config.
C9_AsClaimed ==
  (pc = "done" /\ system = "Windows" /\ machine # "arm64") =>
    (Lines \cap DefaultAvx # {} /\ Lines \cap WindowsAvx # {})

(* C9. On Windows, whatever the CPU, the file of a successful run has the  *)
(* AVX directive under the windows config only, `build:windows             *)
(* --copt=/arch=AVX`, with `build --config=windows` selecting that config; *)
(* it has no AVX directive under the default config.                       *)

C9_WindowsAvx ==
  (pc = "done" /\ system = "Windows") =>
    /\ "build:windows --copt=/arch=AVX" \in Lines
    /\ "build --config=windows" \in Lines
    /\ Lines \cap DefaultAvx = {}

C9_Witness ==
  /\ pc = "done" /\ system = "Windows" /\ machine = "x86_64"
  /\ "build:windows --copt=/arch=AVX" \in Lines

-----------------------------------------------------------------------------
\* The values the first five action-environment lines take on the hosts and
\* frameworks checked.
SampleValues ==
  {"/tf/include", "C:/tf/include",
   "/w/build_deps/tf_header/1.15.2/tensorflow",
   "/tf", "/tf/python", "C:/tf/python",
   "libtensorflow_framework.dylib", "_pywrap_tensorflow_internal.lib",
   "_pywrap_tensorflow_internal.so", "libtf.so.2",
   "0", "1", "1152", "2000", "2051", "2991"}

IsActionEnv(line, name) ==
  \E v \in SampleValues : line = "build --action_env " \o name \o "=\"" \o v \o "\""

ActionEnvNames ==
  <<"TF_HEADER_DIR", "TF_SHARED_LIBRARY_DIR", "TF_SHARED_LIBRARY_NAME",
    "TF_CXX11_ABI_FLAG", "TF_VERSION_INTEGER">>

\* What follows the first five lines in a full configuration.
ExpectedRest ==
  << IF "FOR_TF_SERVING" \in DOMAIN environ
     THEN "build --action_env FOR_TF_SERVING=\"" \o environ["FOR_TF_SERVING"] \o "\""
     ELSE "build --action_env FOR_TF_SERVING=\"0\"",
     "build --spawn_strategy=standalone",
     "build --strategy=Genrule=standalone",
     "build -c opt" >>
  \o (IF system = "Windows"
      THEN <<"build --config=windows",
             "build:windows --enable_runfiles",
             "build:windows --copt=/experimental:preprocessor",
             "build:windows --host_copt=/experimental:preprocessor",
             "build:windows --copt=/arch=AVX">>
      ELSE <<>>)
  \o (IF system \in {"Darwin", "Linux"} /\ machine # "arm64"
      THEN <<"build --copt=-mavx">> ELSE <<>>)
  \o (IF IsSet("TF_NEED_CUDA")
      THEN <<"build --action_env TF_NEED_CUDA=\"1\"",
             "build --action_env CUDA_TOOLKIT_PATH=\"/usr/local/cuda\"",
             "build --action_env CUDNN_INSTALL_PATH=\"/usr/lib/x86_64-linux-gnu\"",
             IF "TF_CUDA_VERSION" \in DOMAIN environ
             THEN "build --action_env TF_CUDA_VERSION=\"" \o environ["TF_CUDA_VERSION"] \o "\""
             ELSE "build --action_env TF_CUDA_VERSION=\"11.0\"",
             "build --action_env TF_CUDNN_VERSION=\"8.0\"",
             "test --config=cuda",
             "build --config=cuda",
             "build:cuda --define=using_cuda=true --define=using_cuda_nvcc=true",
             "build:cuda --crosstool_top=@local_config_cuda//crosstool:toolchain">>
      ELSE IF IsSet("TF_NEED_ROCM")
      THEN <<"build --action_env TF_NEED_ROCM=\"1\"",
             "build --action_env ROCM_PATH=\"/opt/rocm\"",
             "test --config=rocm",
             "build --config=rocm",
             "build:rocm --define=using_rocm_hipcc=true",
             "build:rocm --define=tensorflow_mkldnn_contraction_kernel=0",
             "build:rocm --repo_env TF_NEED_ROCM=1",
             "build:rocm --crosstool_top=@local_config_rocm//crosstool:toolchain">>
      ELSE <<>>)

\* q is the beginning of a full configuration.
BeginsConfiguration(q) ==
  /\ Len(q) <= 5 + Len(ExpectedRest)
  /\ \A i \in 1..Len(q) :
       IF i <= 5 THEN IsActionEnv(q[i], ActionEnvNames[i])
       ELSE q[i] = ExpectedRest[i - 5]

\* A step leaves the file alone or appends one line to it.
AppendsOnly ==
  \/ file' = file
  \/ /\ file'.exists
     /\ Len(file'.lines) = Len(file.lines) + 1
     /\ SubSeq(file'.lines, 1, Len(file.lines)) = file.lines

(* C10. The file is at every moment the beginning of the full              *)
(* configuration: the six action-environment lines in their order, the     *)
(* three strategy lines, the Windows lines on Windows only, `build         *)
(* --copt=-mavx` on macOS and Linux without arm64 only, the GPU block      *)
(* last. A successful run leaves all of it and nothing else, and after the *)
(* removal that opens a run every step leaves the file alone or appends    *)
(* one line.                                                               *)

C10_FileSequence ==
  /\ [](BeginsConfiguration(file.lines))
  /\ [](pc = "done" => Len(file.lines) = 5 + Len(ExpectedRest))
  /\ [][pc # "remove" => AppendsOnly]_vars

\* A Windows file with the ROCm block complete.
C10_Witness ==
  /\ pc = "done"
  /\ system = "Windows"
  /\ IsSet("TF_NEED_ROCM") /\ ~IsSet("TF_NEED_CUDA")
  /\ Len(file.lines) = 22
  /\ file.lines[22] = "build:rocm --crosstool_top=@local_config_rocm//crosstool:toolchain"

====
